---- MODULE Spec2Model ----
(***************************************************************************)
(* A model of the prompt-enhancement gateway of src/app.py: the retry      *)
(* executor, the per-provider APIStatus trackers, the health probes, the   *)
(* Auth0 session guard and the /enhance, /health and /system-health        *)
(* handlers.  One request is handled at a time; every exchange with a      *)
(* provider is one step whose outcome is chosen by the provider.           *)
(***************************************************************************)
EXTENDS Integers, Sequences, FiniteSets, TLC

\* ------------------------------------------------------------------ bounds
MaxRequests == 2        \* requests served after startup
MaxAttempts == 4        \* largest max_retries the retry executor is run with
MaxDelay == 2           \* largest initial_delay the retry executor is run with
MaxThreads == 2      \* request threads updating one status at once

\* ------------------------------------------------------- program constants
DefaultMaxRetries == 3      \* retry_with_backoff(func, max_retries=3, ...)
DefaultInitialDelay == 1    \* retry_with_backoff(..., initial_delay=1)
NoTime == 0                 \* APIStatus.last_check_time = None

None == "None"
Errors == {"timeout"}
IndexError == "list index out of range"
NotInitialized == "API client not initialized"
\* Texts a provider may return: plain, with a closed <think> span, and with
\* an unterminated one.  None of them is JSON.
Texts == {"answer", "<think>reasoning</think>answer", "<think>answer never closes"}
Contents == Texts \cup {"", None}

\* What a provider does with one chat-completion request.
Raise(e) == [kind |-> "raise", val |-> e]
Content(c) == [kind |-> "content", val |-> c]
EmptyChoices == [kind |-> "empty_choices", val |-> None]
NoChoices == [kind |-> "no_choices", val |-> None]
\* The answer to a request that is still in flight.
Pending == [kind |-> "pending", val |-> None]
ProbeResp == {Raise(e) : e \in Errors} \cup {Content("Hi"), EmptyChoices, NoChoices}
CallResp == {Raise(e) : e \in Errors} \cup {Content(c) : c \in Contents}
                \cup {EmptyChoices, NoChoices}

\* ------------------------------------------------------------ retry executor
\* What one invocation of func does: return a value or raise an exception.
Return(v) == [kind |-> "return", val |-> v]
Values == {"v1", "v2"}
Excs == {"x1", "x2", "x3"}
Outcome == {Return(v) : v \in Values} \cup {Raise(x) : x \in Excs}

Pow2(n) == 2 ^ n

\* A backoff that starts one doubling too far.
BackoffDelayDoubled(initial_delay, attempt) == initial_delay * Pow2(attempt + 1)

\* delay = initial_delay * (2 ** attempt)
BackoffDelay(initial_delay, attempt) == initial_delay * Pow2(attempt)

\* An off-by-one in the last-attempt test: gives up one attempt early.
IsLastAttemptEarly(attempt, max_retries) == attempt >= max_retries - 2

\* if attempt == max_retries - 1: raise
IsLastAttempt(attempt, max_retries) == attempt = max_retries - 1

Ev(e, a) == [ev |-> e, arg |-> a]

\* A retry loop that swallows the last exception too and falls off the loop.
RECURSIVE retry_loop_swallow(_, _, _, _, _)
retry_loop_swallow(func, max_retries, initial_delay, attempt, log) ==
    IF attempt >= max_retries
    THEN [log |-> log, result |-> Return(None), at |-> 0]
    ELSE LET o == func[attempt + 1]
             log1 == Append(log, Ev("call", attempt + 1))
         IN  IF o.kind = "return"
             THEN [log |-> log1, result |-> o, at |-> attempt + 1]
             ELSE retry_loop_swallow(func, max_retries, initial_delay, attempt + 1,
                    IF attempt = max_retries - 1 THEN log1
                    ELSE Append(log1, Ev("sleep", BackoffDelay(initial_delay, attempt))))

\* The for loop of retry_with_backoff from iteration `attempt` on.  func[k] is
\* what the k-th invocation of func does; log records each invocation
\* ("call", k) and each time.sleep ("sleep", delay) in order; `at` is the
\* invocation whose value or exception reaches the caller (0: none, the loop
\* ran out and None is returned).
RECURSIVE retry_loop(_, _, _, _, _)
retry_loop(func, max_retries, initial_delay, attempt, log) ==
    IF attempt >= max_retries
    THEN [log |-> log, result |-> Return(None), at |-> 0]
    ELSE LET o == func[attempt + 1]
             log1 == Append(log, Ev("call", attempt + 1))
         IN  IF o.kind = "return"
             THEN [log |-> log1, result |-> o, at |-> attempt + 1]
             ELSE IF IsLastAttempt(attempt, max_retries)
                  THEN [log |-> log1, result |-> o, at |-> attempt + 1]
                  ELSE retry_loop(func, max_retries, initial_delay, attempt + 1,
                         Append(log1, Ev("sleep", BackoffDelay(initial_delay, attempt))))

retry_with_backoff(func, max_retries, initial_delay) ==
    retry_loop(func, max_retries, initial_delay, 0, <<>>)

NumCalls(log) == Cardinality({i \in 1..Len(log) : log[i].ev = "call"})

\* ------------------------------------------------------------ health tracker
APIStatus == [is_healthy |-> FALSE, last_check_time |-> NoTime,
              last_error |-> None, consecutive_failures |-> 0]

\* A success update that leaves the failure count as it is.
MarkSuccessKeepCount(s, now) ==
    [s EXCEPT !.is_healthy = TRUE, !.last_check_time = now]

\* status.is_healthy = True; status.last_check_time = time.time();
\* status.consecutive_failures = 0
MarkSuccess(s, now) ==
    [s EXCEPT !.is_healthy = TRUE, !.last_check_time = now,
              !.consecutive_failures = 0]

\* A failure update that does not store the error.
MarkFailureNoError(s, now, e) ==
    [s EXCEPT !.is_healthy = FALSE, !.last_check_time = now,
              !.consecutive_failures = @ + 1]

\* A failure update that sets the failure count to 1 instead of adding 1.
MarkFailureSetOne(s, now, e) ==
    [s EXCEPT !.is_healthy = FALSE, !.last_check_time = now,
              !.last_error = e, !.consecutive_failures = 1]

\* status.is_healthy = False; status.last_check_time = time.time();
\* status.last_error = str(e); status.consecutive_failures += 1
MarkFailure(s, now, e) ==
    [s EXCEPT !.is_healthy = FALSE, !.last_check_time = now,
              !.last_error = e, !.consecutive_failures = @ + 1]

\* A health check that only reads the cached status and sends nothing.
health_check_cached(client, resp, s, now) ==
    [status |-> s, out |-> Return(<<s.is_healthy, s.last_error>>), sent |-> FALSE]

\* One invocation of the inner health_check of check_api_health: the new
\* status, the (healthy, error) pair it returns and whether a request was sent.
\* It catches every exception, so it always returns.
health_check(client, resp, s, now) ==
    IF client = None
    THEN [status |-> MarkFailure(s, now, NotInitialized),
          out |-> Return(<<FALSE, NotInitialized>>), sent |-> FALSE]
    ELSE IF resp.kind = "raise"
    THEN [status |-> MarkFailure(s, now, resp.val),
          out |-> Return(<<FALSE, resp.val>>), sent |-> TRUE]
    ELSE IF resp.kind = "empty_choices"
    THEN [status |-> MarkFailure(s, now, IndexError),
          out |-> Return(<<FALSE, IndexError>>), sent |-> TRUE]
    ELSE [status |-> MarkSuccess(s, now),
          out |-> Return(<<TRUE, None>>), sent |-> TRUE]

\* The status after the first n invocations of health_check on resps.
RECURSIVE ProbeStatus(_, _, _, _, _)
ProbeStatus(client, resps, s, now, n) ==
    IF n = 0 THEN s
    ELSE health_check(client, resps[n], ProbeStatus(client, resps, s, now, n - 1), now).status

\* The provider's answers to the probe requests of the first n invocations.
RECURSIVE ProbeReplies(_, _, _, _, _)
ProbeReplies(client, resps, s, now, n) ==
    IF n = 0 THEN <<>>
    ELSE LET before == ProbeReplies(client, resps, s, now, n - 1)
             hc == health_check(client, resps[n],
                                ProbeStatus(client, resps, s, now, n - 1), now)
         IN  IF hc.sent THEN Append(before, resps[n]) ELSE before

\* check_api_health: retry_with_backoff(health_check).  resps[k] is the
\* provider's answer to the k-th probe request.
check_api_health(client, resps, s, now) ==
    LET func == [k \in 1..DefaultMaxRetries |->
                    health_check(client, resps[k],
                                 ProbeStatus(client, resps, s, now, k - 1), now).out]
        r == retry_with_backoff(func, DefaultMaxRetries, DefaultInitialDelay)
        n == NumCalls(r.log)
    IN  [status |-> ProbeStatus(client, resps, s, now, n),
         healthy |-> r.result.val[1],
         error |-> r.result.val[2],
         replies |-> ProbeReplies(client, resps, s, now, n),
         log |-> r.log]

\* ------------------------------------------------------------ client set-up
\* A Groq set-up that builds the client without looking at the key.
initialize_groq_client_any_key(key, ctor_ok, resp, fresh) ==
    IF ~ctor_ok THEN [client |-> None, sent |-> FALSE]
    ELSE IF resp.kind = "raise" THEN [client |-> None, sent |-> TRUE]
    ELSE [client |-> fresh, sent |-> TRUE]

\* initialize_groq_client: no key -> None; a constructor error -> None; a
\* failing test request -> None; otherwise the new client.
initialize_groq_client(key, ctor_ok, resp, fresh) ==
    IF ~key THEN [client |-> None, sent |-> FALSE]
    ELSE IF ~ctor_ok THEN [client |-> None, sent |-> FALSE]
    ELSE IF resp.kind = "raise" THEN [client |-> None, sent |-> TRUE]
    ELSE [client |-> fresh, sent |-> TRUE]

\* initialize_deepseek_client: no key -> None; constructor error -> None.
initialize_deepseek_client(key, ctor_ok) ==
    IF ~key THEN None ELSE IF ~ctor_ok THEN None ELSE "startup"

\* ------------------------------------------------------------ session guard
\* The session holds no profile ("empty", "jwt_only"), a profile whose
\* user_id is empty ("profile_no_uid"), or a valid one ("profile_ok").
Sessions == {"empty", "jwt_only", "profile_no_uid", "profile_ok"}

\* A guard that redirects a profile without user_id but leaves the session.
requires_auth_no_clear(sess) ==
    IF sess \in {"empty", "jwt_only", "profile_no_uid"}
    THEN [allow |-> FALSE, session |-> sess]
    ELSE [allow |-> TRUE, session |-> sess]

\* A guard that checks only that a profile is present.
requires_auth_profile_only(sess) ==
    IF sess \in {"empty", "jwt_only"} THEN [allow |-> FALSE, session |-> sess]
    ELSE [allow |-> TRUE, session |-> sess]

\* decorated(): 'profile' not in session -> redirect; not profile.get('user_id')
\* -> session.clear() and redirect; else the wrapped handler runs.
requires_auth(sess) ==
    IF sess \in {"empty", "jwt_only"} THEN [allow |-> FALSE, session |-> sess]
    ELSE IF sess = "profile_no_uid" THEN [allow |-> FALSE, session |-> "empty"]
    ELSE [allow |-> TRUE, session |-> sess]

\* callback_handling: what the session holds after the Auth0 exchange.
callback_session(sess, outcome) ==
    CASE outcome = "token_error" -> sess
      [] outcome = "no_sub" -> "jwt_only"
      [] outcome = "empty_sub" -> "profile_no_uid"
      [] OTHER -> "profile_ok"

\* ------------------------------------------------------------ /enhance input
\* request.json: null, {}, an object with no prompt, with an empty prompt,
\* with a prompt, or a JSON value that is not an object.
Bodies == {"null", "{}", "{type}", "{prompt:''}", "{prompt:p}", "[1]"}
PromptTypes == {"user", "system", "image"}

DataTruthy(body) == body \notin {"null", "{}"}
DataIsObject(body) == body # "[1]"
\* data.get('prompt', '')
PromptText(body) == IF body = "{prompt:p}" THEN "p" ELSE ""

\* A choice with an instruction of its own for each of the three categories.
SystemMessagePerCategory(prompt_type) ==
    CASE prompt_type = "system" -> "improve system prompt"
      [] prompt_type = "image" -> "improve image prompt"
      [] OTHER -> "improve user prompt"

\* The system message chosen from the prompt type.
SystemMessage(prompt_type) ==
    IF prompt_type = "system" THEN "improve system prompt" ELSE "improve user prompt"

\* ------------------------------------------------------------ responses
Resp(code, kind, text, errors) ==
    [code |-> code, kind |-> kind, text |-> text, errors |-> errors]
NoResponse == Resp(0, "none", None, <<>>)
RedirectLogin == Resp(302, "redirect_login", None, <<>>)
RedirectAuth0 == Resp(302, "redirect_auth0", None, <<>>)
RedirectIndex == Resp(302, "redirect_index", None, <<>>)
NoData == Resp(400, "no_data", None, <<>>)
NoPrompt == Resp(400, "no_prompt", None, <<>>)
Unexpected == Resp(500, "unexpected", None, <<>>)
Unavailable == Resp(503, "unavailable", None, <<>>)

\* A result that falls back to a local rule-based rewrite.
EnhanceResultLocal(enhanced, errors) ==
    IF enhanced \notin {None, ""}
    THEN Resp(200, "enhanced", enhanced, <<>>)
    ELSE Resp(200, "local", "Provide a detailed and specific response about: p", <<>>)

\* A result that returns 200 for any value that is not None.
EnhanceResultAnyValue(enhanced, errors) ==
    IF enhanced # None
    THEN Resp(200, "enhanced", enhanced, <<>>)
    ELSE Resp(503, "api_failed", None, errors)

\* A result that wraps the text in a JSON object with a "note".
EnhanceResultWrapped(enhanced, errors) ==
    IF enhanced \notin {None, ""}
    THEN Resp(200, "wrapped_with_note", <<"note", enhanced>>, <<>>)
    ELSE Resp(503, "api_failed", None, errors)

\* A result whose text has the <think> spans removed.
EnhanceResultSanitized(enhanced, errors) ==
    LET clean == CASE enhanced = "<think>reasoning</think>answer" -> "answer"
                   [] enhanced = "<think>answer never closes" -> ""
                   [] OTHER -> enhanced
    IN  IF enhanced \notin {None, ""}
        THEN Resp(200, "enhanced", clean, <<>>)
        ELSE Resp(503, "api_failed", None, errors)

\* if enhanced_prompt: 200 with the text, else 503 "API request failed: ..."
EnhanceResult(enhanced, errors) ==
    IF enhanced \notin {None, ""}
    THEN Resp(200, "enhanced", enhanced, <<>>)
    ELSE Resp(503, "api_failed", None, errors)

\* An entry check that lets an empty prompt through.
EnhanceEntryNoPromptCheck(body) ==
    IF ~DataTruthy(body) THEN NoData
    ELSE IF ~DataIsObject(body) THEN Unexpected
    ELSE NoResponse

\* enhance_prompt up to the health checks: the early returns, or NoResponse
\* when the handler goes on to perform_health_checks.
EnhanceEntry(body) ==
    IF ~DataTruthy(body) THEN NoData
    ELSE IF ~DataIsObject(body) THEN Unexpected
    ELSE IF PromptText(body) = "" THEN NoPrompt
    ELSE NoResponse

\* results of perform_health_checks before any check
InitialResults ==
    [groq |-> [healthy |-> FALSE, error |-> None],
     deepseek |-> [healthy |-> FALSE, error |-> None]]

BothUnhealthy(h) == ~h.groq.healthy /\ ~h.deepseek.healthy

\* all(api["healthy"] for api in results.values()
\*     if api["error"] != "Client not initialized")
AllHealthy(h) ==
    \A p \in {"groq", "deepseek"} :
        h[p].error # "Client not initialized" => h[p].healthy

HealthResponse(h) ==
    IF AllHealthy(h) THEN Resp(200, "healthy", None, <<>>)
    ELSE Resp(503, "degraded", None, <<>>)

\* system_health: "critical" (503) with no healthy API, "healthy" (200) with
\* one and a complete environment, otherwise "degraded" (207); 500 on error.
SystemHealthResponse(h, env_ok, psutil_ok) ==
    IF ~psutil_ok THEN Resp(500, "error", None, <<>>)
    ELSE IF ~(h.groq.healthy \/ h.deepseek.healthy) THEN Resp(503, "critical", None, <<>>)
    ELSE IF env_ok THEN Resp(200, "healthy", None, <<>>)
    ELSE Resp(207, "degraded", None, <<>>)

\* A call that records successes but leaves the status alone when it fails.
try_api_call_no_failure_record(resp, s, now) ==
    CASE resp.kind = "raise" ->
           [status |-> s, raised |-> TRUE, err |-> resp.val, value |-> None]
      [] resp.kind = "content" ->
           [status |-> MarkSuccess(s, now), raised |-> FALSE,
            err |-> None, value |-> resp.val]
      [] resp.kind = "empty_choices" ->
           [status |-> MarkSuccess(s, now),
            raised |-> TRUE, err |-> IndexError, value |-> None]
      [] OTHER ->
           [status |-> MarkSuccess(s, now), raised |-> FALSE,
            err |-> None, value |-> "str(response)"]

\* A call that treats a response without choices as a failure of the provider.
try_api_call_strict(resp, s, now) ==
    CASE resp.kind = "content" ->
           [status |-> MarkSuccess(s, now), raised |-> FALSE,
            err |-> None, value |-> resp.val]
      [] resp.kind = "raise" ->
           [status |-> MarkFailure(s, now, resp.val), raised |-> TRUE,
            err |-> resp.val, value |-> None]
      [] OTHER ->
           [status |-> MarkFailure(s, now, IndexError), raised |-> TRUE,
            err |-> IndexError, value |-> None]

\* One call of try_api_call: the new status, and the value returned or the
\* error raised.  The status is marked successful before the content is
\* extracted, so a response with an empty choices list is marked twice.
try_api_call(resp, s, now) ==
    CASE resp.kind = "raise" ->
           [status |-> MarkFailure(s, now, resp.val), raised |-> TRUE,
            err |-> resp.val, value |-> None]
      [] resp.kind = "content" ->
           [status |-> MarkSuccess(s, now), raised |-> FALSE,
            err |-> None, value |-> resp.val]
      [] resp.kind = "empty_choices" ->
           [status |-> MarkFailure(MarkSuccess(s, now), now, IndexError),
            raised |-> TRUE, err |-> IndexError, value |-> None]
      [] OTHER ->
           [status |-> MarkSuccess(s, now), raised |-> FALSE,
            err |-> None, value |-> "str(response)"]

\* A health check run on every provider, initialised or not.
ShouldProbeAlways(client) == TRUE

\* perform_health_checks: if groq_client is not None / if deepseek_client is
\* not None
ShouldProbe(client) == client # None

\* A primary call made whenever the client exists, whatever its probe said.
TryPrimaryAnyHealth(client, h) == client # None

\* if groq_client is not None and api_health["groq"]["healthy"]
TryPrimary(client, h) == client # None /\ h.groq.healthy

\* A fallback taken also when Groq returned an empty string.
TryFallbackOnEmpty(enhanced, client, h) ==
    enhanced \in {None, ""} /\ client # None /\ h.deepseek.healthy

\* A fallback taken only when Groq was skipped as unhealthy.
TryFallbackUnhealthyOnly(enhanced, client, h) ==
    client # None /\ h.deepseek.healthy /\ ~h.groq.healthy

\* if enhanced_prompt is None and deepseek_client is not None
\*    and api_health["deepseek"]["healthy"]
TryFallback(enhanced, client, h) ==
    enhanced = None /\ client # None /\ h.deepseek.healthy

\* A request sent to a provider; for a completion request, with the
\* provider's answer (a probe's answer is kept in api_health).
Sent(kind, provider, msg, reply) ==
    [kind |-> kind, provider |-> provider, msg |-> msg, reply |-> reply]

Probes(provider, replies) ==
    [k \in 1..Len(replies) |-> Sent("probe", provider, None, None)]

\* A Groq request that is not waited for.
AfterGroqSendNoWait == "call_deepseek"

\* response = client.chat.completions.create(...) blocks until the answer.
AfterGroqSend == "await_groq"

\* A Groq call that is tried again, up to the retry limit, when it raised.
AfterGroqCallRetry(raised, log) ==
    IF raised /\ Cardinality({i \in 1..Len(log) : log[i].kind = "completion"
                                                    /\ log[i].provider = "groq"})
                   < DefaultMaxRetries
    THEN "call_groq" ELSE "call_deepseek"

\* After try_api_call(groq_client, True) the handler goes on to the DeepSeek
\* block, whether the call returned or raised.
AfterGroqCall(raised, log) == "call_deepseek"

\* A new client installed without regard to its probe.
ReplaceClientUnprobed(old, new, healthy) == new

\* if groq_health: groq_client = new_groq_client
ReplaceClient(old, new, healthy) == IF healthy THEN new ELSE old

\* A handler that goes on to the calls whatever the health checks said.
AfterReinitNoGate(h) == "call_groq"

\* If still no healthy APIs, return error (503); otherwise go on to the calls.
AfterReinit(h) == IF BothUnhealthy(h) THEN "done" ELSE "call_groq"

\* ------------------------------------------------------------------ state
VARIABLES
    GROQ_API_KEY,       \* is the environment variable set
    DEEPSEEK_API_KEY,
    groq_client,        \* None, or the client object ("startup", "reinit")
    deepseek_client,
    groq_status,        \* the global APIStatus trackers
    deepseek_status,
    clock,              \* time.time(), advanced once per request
    session,            \* the caller's Flask session
    handler,            \* the handler being (or last) run
    pc,                 \* its position
    request,            \* the body and type of the /enhance request
    api_health,         \* the results of perform_health_checks
    new_groq_client,    \* enhance_prompt's local of that name
    enhanced_prompt,
    error_message,      \* the errors joined into error_message, in order
    response,           \* the response of the last finished request
    sent,               \* the provider requests of this request, in order
    entry,              \* the trackers and clients when this request began
    failures_since_success, \* history: per provider, the failed attempts
                        \*   since its last successful one
    threads,            \* status updates in isolation: each request thread's
                        \*   update of groq_status and its position in it
    retry_in,           \* retry executor in isolation: its arguments
    retry_out,          \*   and what it did with them
    retry_done

vars == <<GROQ_API_KEY, DEEPSEEK_API_KEY, groq_client, deepseek_client,
          groq_status, deepseek_status, clock, session, handler, pc, request,
          api_health, new_groq_client, enhanced_prompt, error_message,
          response, sent, entry, failures_since_success, threads, retry_in,
          retry_out, retry_done>>

env == <<GROQ_API_KEY, DEEPSEEK_API_KEY>>
clients == <<groq_client, deepseek_client>>
trackers == <<groq_status, deepseek_status>>
locals == <<request, api_health, new_groq_client, enhanced_prompt, error_message>>
retry == <<retry_in, retry_out, retry_done>>

Snapshot == [groq_status |-> groq_status, deepseek_status |-> deepseek_status,
             groq_client |-> groq_client, deepseek_client |-> deepseek_client,
             session |-> session]

NoRequest == [body |-> "null", type |-> "user", entered |-> FALSE]
RetryIdle == [func |-> [k \in 1..MaxAttempts |-> Return("v1")],
              max_retries |-> DefaultMaxRetries,
              initial_delay |-> DefaultInitialDelay]
RetryNone == [log |-> <<>>, result |-> Return(None), at |-> 0]
Threads == 1..MaxThreads
\* No status update under way outside the handlers' own steps.
NoUpdates == [t \in Threads |-> [kind |-> "success", err |-> None,
                                 pc |-> "done", read |-> 0]]

\* The process at line 471: the trackers constructed, the environment read,
\* no client built yet.
Init ==
    /\ GROQ_API_KEY \in BOOLEAN
    /\ DEEPSEEK_API_KEY \in BOOLEAN
    /\ groq_client = None
    /\ deepseek_client = None
    /\ groq_status = APIStatus
    /\ deepseek_status = APIStatus
    /\ clock = 1
    /\ session = "empty"
    /\ handler = "startup"
    /\ pc = "init_clients"
    /\ request = NoRequest
    /\ api_health = InitialResults
    /\ new_groq_client = None
    /\ enhanced_prompt = None
    /\ error_message = <<>>
    /\ response = NoResponse
    /\ sent = <<>>
    /\ entry = [groq_status |-> APIStatus, deepseek_status |-> APIStatus,
                groq_client |-> None, deepseek_client |-> None,
                session |-> "empty"]
    /\ failures_since_success = [groq |-> 0, deepseek |-> 0]
    /\ threads = NoUpdates
    /\ retry_in = RetryIdle
    /\ retry_out = RetryNone
    /\ retry_done = FALSE

\* ------------------------------------------------------------------ startup
\* groq_client, groq_error = initialize_groq_client()
\* deepseek_client, deepseek_error = initialize_deepseek_client()
StartupInit ==
    /\ pc = "init_clients"
    /\ \E ctor_g \in BOOLEAN, resp \in ProbeResp, ctor_d \in BOOLEAN :
         LET g == initialize_groq_client(GROQ_API_KEY, ctor_g, resp, "startup")
         IN  /\ groq_client' = g.client
             /\ deepseek_client' = initialize_deepseek_client(DEEPSEEK_API_KEY, ctor_d)
             /\ sent' = IF g.sent THEN <<Sent("init_test", "groq", None, None)>> ELSE <<>>
    /\ pc' = "probe_groq"
    /\ api_health' = InitialResults
    /\ UNCHANGED <<env, threads, failures_since_success, trackers, clock, session, handler, request, new_groq_client,
                   enhanced_prompt, error_message, response, entry, retry>>

\* ------------------------------------------------------- perform_health_checks
\* if groq_client is not None: check_api_health(groq_client, True)
ProbeGroq ==
    /\ pc = "probe_groq"
    /\ \E resps \in [1..DefaultMaxRetries -> ProbeResp] :
         IF ShouldProbe(groq_client)
         THEN LET r == check_api_health(groq_client, resps, groq_status, clock)
              IN  /\ groq_status' = r.status
                  /\ api_health' = [api_health EXCEPT
                        !.groq = [healthy |-> r.healthy, error |-> r.error]]
                  /\ sent' = sent \o Probes("groq", r.replies)
                  /\ failures_since_success' = [failures_since_success EXCEPT
                        !.groq = IF r.healthy THEN 0 ELSE @ + 1]
         ELSE /\ api_health' = [api_health EXCEPT
                        !.groq.error = "Groq client not initialized"]
              /\ UNCHANGED <<groq_status, sent, failures_since_success>>
    /\ pc' = "probe_deepseek"
    /\ UNCHANGED <<env, threads, clients, deepseek_status, clock, session, handler, request,
                   new_groq_client, enhanced_prompt, error_message, response,
                   entry, retry>>

\* Where each caller of perform_health_checks goes on.
AfterProbes(h, results) ==
    CASE h = "startup" -> "done"
      [] h = "enhance" -> IF BothUnhealthy(results) THEN "reinit" ELSE "call_groq"
      [] OTHER -> "respond"

\* if deepseek_client is not None: check_api_health(deepseek_client, False)
ProbeDeepSeek ==
    /\ pc = "probe_deepseek"
    /\ \E resps \in [1..DefaultMaxRetries -> ProbeResp] :
         IF ShouldProbe(deepseek_client)
         THEN LET r == check_api_health(deepseek_client, resps, deepseek_status, clock)
              IN  /\ deepseek_status' = r.status
                  /\ api_health' = [api_health EXCEPT
                        !.deepseek = [healthy |-> r.healthy, error |-> r.error]]
                  /\ sent' = sent \o Probes("deepseek", r.replies)
                  /\ failures_since_success' = [failures_since_success EXCEPT
                        !.deepseek = IF r.healthy THEN 0 ELSE @ + 1]
         ELSE /\ api_health' = [api_health EXCEPT
                        !.deepseek.error = "DeepSeek client not initialized"]
              /\ UNCHANGED <<deepseek_status, sent, failures_since_success>>
    /\ pc' = AfterProbes(handler, api_health')
    /\ UNCHANGED <<env, threads, clients, groq_status, clock, session, handler, request,
                   new_groq_client, enhanced_prompt, error_message, response,
                   entry, retry>>

\* ------------------------------------------------------------------ requests
\* What every request does on arrival: time has passed, nothing sent yet.
Arrive(h) ==
    /\ pc = "idle"
    /\ clock <= MaxRequests
    /\ clock' = clock + 1
    /\ handler' = h
    /\ entry' = Snapshot
    /\ UNCHANGED <<api_health, new_groq_client, enhanced_prompt, error_message, sent>>

\* GET /health
HealthRequest ==
    /\ Arrive("health")
    /\ pc' = "probe_groq"
    /\ response' = NoResponse
    /\ request' = NoRequest
    /\ UNCHANGED <<env, threads, failures_since_success, clients, trackers, session, retry>>

HealthRespond ==
    /\ pc = "respond"
    /\ handler = "health"
    /\ response' = HealthResponse(api_health)
    /\ pc' = "done"
    /\ UNCHANGED <<env, threads, failures_since_success, clients, trackers, clock, session, handler, locals, sent,
                   entry, retry>>

\* GET /system-health
SystemHealthRequest ==
    /\ Arrive("system_health")
    /\ pc' = "probe_groq"
    /\ response' = NoResponse
    /\ request' = NoRequest
    /\ UNCHANGED <<env, threads, failures_since_success, clients, trackers, session, retry>>

SystemHealthRespond ==
    /\ pc = "respond"
    /\ handler = "system_health"
    /\ \E auth0_ok \in BOOLEAN, psutil_ok \in BOOLEAN :
         response' = SystemHealthResponse(api_health,
                        GROQ_API_KEY /\ DEEPSEEK_API_KEY /\ auth0_ok, psutil_ok)
    /\ pc' = "done"
    /\ UNCHANGED <<env, threads, failures_since_success, clients, trackers, clock, session, handler, locals, sent,
                   entry, retry>>

\* POST /enhance, from requires_auth to the call of perform_health_checks.
EnhanceRequest ==
    /\ Arrive("enhance")
    /\ \E body \in Bodies, prompt_type \in PromptTypes :
         LET a == requires_auth(session)
             early == IF a.allow THEN EnhanceEntry(body) ELSE RedirectLogin
         IN  /\ session' = a.session
             /\ request' = [body |-> body, type |-> prompt_type, entered |-> a.allow]
             /\ response' = early
             /\ pc' = IF early = NoResponse THEN "probe_groq" ELSE "done"
    /\ UNCHANGED <<env, threads, failures_since_success, clients, trackers, retry>>

\* Both APIs unhealthy: new_groq_client, _ = initialize_groq_client()
Reinit ==
    /\ pc = "reinit"
    /\ \E ctor_ok \in BOOLEAN, resp \in ProbeResp :
         LET g == initialize_groq_client(GROQ_API_KEY, ctor_ok, resp, "reinit")
         IN  /\ new_groq_client' = g.client
             /\ sent' = IF g.sent THEN Append(sent, Sent("init_test", "groq", None, None))
                        ELSE sent
             /\ pc' = IF g.client # None THEN "reinit_probe"
                      ELSE AfterReinit(api_health)
             /\ response' = IF pc' = "done" THEN Unavailable ELSE response
    /\ UNCHANGED <<env, threads, failures_since_success, clients, trackers, clock, session, handler, request,
                   api_health, enhanced_prompt, error_message, entry, retry>>

\* groq_health, _ = check_api_health(new_groq_client, True); a healthy new
\* client replaces the global one, otherwise the request ends with 503.
ReinitProbe ==
    /\ pc = "reinit_probe"
    /\ \E resps \in [1..DefaultMaxRetries -> ProbeResp] :
         LET r == check_api_health(new_groq_client, resps, groq_status, clock)
         IN  /\ groq_status' = r.status
             /\ sent' = sent \o Probes("groq", r.replies)
             /\ failures_since_success' = [failures_since_success EXCEPT
                   !.groq = IF r.healthy THEN 0 ELSE @ + 1]
             /\ groq_client' = ReplaceClient(groq_client, new_groq_client, r.healthy)
             /\ api_health' = IF r.healthy
                              THEN [api_health EXCEPT !.groq.healthy = TRUE]
                              ELSE api_health
             /\ pc' = AfterReinit(api_health')
             /\ response' = IF pc' = "done" THEN Unavailable ELSE response
    /\ UNCHANGED <<env, threads, deepseek_client, deepseek_status, clock, session, handler,
                   request, new_groq_client, enhanced_prompt, error_message,
                   entry, retry>>

\* Try primary API: the completion request leaves, or the block is skipped.
CallGroq ==
    /\ pc = "call_groq"
    /\ IF TryPrimary(groq_client, api_health)
       THEN /\ sent' = Append(sent,
                  Sent("completion", "groq", SystemMessage(request.type), Pending))
            /\ pc' = AfterGroqSend
       ELSE /\ pc' = AfterGroqCall(FALSE, sent)
            /\ UNCHANGED sent
    /\ UNCHANGED <<env, threads, failures_since_success, clients, trackers, clock, session,
                   handler, locals, response, entry, retry>>

\* Groq answers: try_api_call(groq_client, True) returns or raises.
GroqReply ==
    /\ pc = "await_groq"
    /\ \E resp \in CallResp :
         LET r == try_api_call(resp, groq_status, clock)
         IN  /\ groq_status' = r.status
             /\ sent' = [sent EXCEPT ![Len(sent)].reply = resp]
             /\ enhanced_prompt' = IF r.raised THEN enhanced_prompt ELSE r.value
             /\ error_message' = IF r.raised THEN <<r.err>> ELSE error_message
             /\ failures_since_success' = [failures_since_success EXCEPT
                   !.groq = IF r.raised THEN @ + 1 ELSE 0]
    /\ pc' = AfterGroqCall(error_message' # <<>>, sent')
    /\ UNCHANGED <<env, threads, clients, deepseek_status, clock, session, handler, request,
                   api_health, new_groq_client, response, entry, retry>>

\* If Groq failed or is unhealthy, try DeepSeek: the completion request
\* leaves, or the block is skipped and the result or error is returned.
CallDeepSeek ==
    /\ pc = "call_deepseek"
    /\ IF TryFallback(enhanced_prompt, deepseek_client, api_health)
       THEN /\ sent' = Append(sent,
                  Sent("completion", "deepseek", SystemMessage(request.type), Pending))
            /\ pc' = "await_deepseek"
            /\ UNCHANGED response
       ELSE /\ response' = EnhanceResult(enhanced_prompt, error_message)
            /\ pc' = "done"
            /\ UNCHANGED sent
    /\ UNCHANGED <<env, threads, failures_since_success, clients, trackers, clock, session,
                   handler, locals, entry, retry>>

\* DeepSeek answers; then return result or error.
DeepSeekReply ==
    /\ pc = "await_deepseek"
    /\ \E resp \in CallResp :
         LET r == try_api_call(resp, deepseek_status, clock)
         IN  /\ deepseek_status' = r.status
             /\ sent' = [sent EXCEPT ![Len(sent)].reply = resp]
             /\ enhanced_prompt' = IF r.raised THEN enhanced_prompt ELSE r.value
             /\ error_message' = IF r.raised THEN Append(error_message, r.err)
                                 ELSE error_message
             /\ failures_since_success' = [failures_since_success EXCEPT
                   !.deepseek = IF r.raised THEN @ + 1 ELSE 0]
    /\ response' = EnhanceResult(enhanced_prompt', error_message')
    /\ pc' = "done"
    /\ UNCHANGED <<env, threads, clients, groq_status, clock, session, handler, request,
                   api_health, new_groq_client, entry, retry>>

\* ------------------------------------------------------------ session routes
\* A route that sends nothing to a provider.
SessionRoute(h) ==
    /\ pc = "idle"
    /\ pc' = "done"
    /\ handler' = h
    /\ entry' = Snapshot
    /\ UNCHANGED <<env, threads, failures_since_success, clients, trackers, clock, locals, sent, retry>>

\* The response leaves; the request's locals are discarded.
Finish ==
    /\ pc = "done"
    /\ pc' = "idle"
    /\ handler' = "none"
    /\ request' = NoRequest
    /\ api_health' = InitialResults
    /\ new_groq_client' = None
    /\ enhanced_prompt' = None
    /\ error_message' = <<>>
    /\ response' = NoResponse
    /\ sent' = <<>>
    /\ entry' = Snapshot
    /\ UNCHANGED <<env, threads, failures_since_success, clients, trackers, clock, session, retry>>

\* GET /
Index ==
    /\ SessionRoute("index")
    /\ session' = requires_auth(session).session
    /\ response' = IF requires_auth(session).allow
                   THEN Resp(200, "index_page", None, <<>>) ELSE RedirectLogin

\* GET /login
Login ==
    /\ SessionRoute("login")
    /\ session' = "empty"
    /\ response' = RedirectAuth0

\* GET /callback
Callback ==
    /\ SessionRoute("callback")
    /\ \E outcome \in {"token_error", "no_sub", "empty_sub", "ok"} :
         /\ session' = callback_session(session, outcome)
         /\ response' = IF outcome \in {"token_error", "no_sub"}
                        THEN RedirectLogin ELSE RedirectIndex

\* GET /logout
Logout ==
    /\ SessionRoute("logout")
    /\ session' = "empty"
    /\ response' = RedirectAuth0

Next ==
    \/ StartupInit
    \/ ProbeGroq
    \/ ProbeDeepSeek
    \/ HealthRequest
    \/ HealthRespond
    \/ SystemHealthRequest
    \/ SystemHealthRespond
    \/ EnhanceRequest
    \/ Reinit
    \/ ReinitProbe
    \/ CallGroq
    \/ GroqReply
    \/ CallDeepSeek
    \/ DeepSeekReply
    \/ Index
    \/ Login
    \/ Callback
    \/ Logout
    \/ Finish

Spec == Init /\ [][Next]_vars

\* ------------------------------------------- the retry executor in isolation
\* retry_with_backoff applied to an operation whose k-th invocation does
\* func[k], for every max_retries and initial_delay within the bounds.
RetryInit ==
    /\ GROQ_API_KEY = FALSE
    /\ DEEPSEEK_API_KEY = FALSE
    /\ groq_client = None
    /\ deepseek_client = None
    /\ groq_status = APIStatus
    /\ deepseek_status = APIStatus
    /\ clock = 1
    /\ session = "empty"
    /\ handler = "startup"
    /\ pc = "retry"
    /\ request = NoRequest
    /\ api_health = InitialResults
    /\ new_groq_client = None
    /\ enhanced_prompt = None
    /\ error_message = <<>>
    /\ response = NoResponse
    /\ sent = <<>>
    /\ entry = [groq_status |-> APIStatus, deepseek_status |-> APIStatus,
                groq_client |-> None, deepseek_client |-> None,
                session |-> "empty"]
    /\ failures_since_success = [groq |-> 0, deepseek |-> 0]
    /\ threads = NoUpdates
    /\ retry_in \in [func : [1..MaxAttempts -> Outcome],
                     max_retries : 0..MaxAttempts,
                     initial_delay : 1..MaxDelay]
    /\ retry_out = RetryNone
    /\ retry_done = FALSE

RunRetry ==
    /\ pc = "retry"
    /\ ~retry_done
    /\ retry_out' = retry_with_backoff(retry_in.func, retry_in.max_retries,
                                       retry_in.initial_delay)
    /\ retry_done' = TRUE
    /\ UNCHANGED <<env, threads, failures_since_success, clients, trackers, clock, session, handler, pc, locals,
                   response, sent, entry, retry_in>>

RetryNext == RunRetry

RetrySpec == RetryInit /\ [][RetryNext]_vars

\* ------------------------------ concurrent status updates in isolation
\* The server started by app.run handles each request in its own thread, and
\* the trackers are module globals written without a lock.  Each thread here
\* performs one update of groq_status, a success update or a failure update,
\* one statement at a time; `+= 1` is a read followed by a write.
RaceStatuses ==
    {APIStatus,
     MarkSuccess(APIStatus, 1),
     MarkFailure(APIStatus, 1, "timeout"),
     MarkFailure(MarkFailure(APIStatus, 1, "timeout"), 1, "timeout"),
     MarkSuccess(MarkFailure(APIStatus, 1, "timeout"), 1)}
Updates == [kind : {"success"}, err : {None}]
             \cup [kind : {"failure"}, err : Errors \cup {IndexError}]

RaceInit ==
    /\ GROQ_API_KEY = TRUE
    /\ DEEPSEEK_API_KEY = TRUE
    /\ groq_client = "startup"
    /\ deepseek_client = "startup"
    /\ groq_status \in RaceStatuses
    /\ deepseek_status = APIStatus
    /\ clock = 2
    /\ session = "profile_ok"
    /\ handler = "none"
    /\ pc = "race"
    /\ request = NoRequest
    /\ api_health = InitialResults
    /\ new_groq_client = None
    /\ enhanced_prompt = None
    /\ error_message = <<>>
    /\ response = NoResponse
    /\ sent = <<>>
    /\ entry = Snapshot
    /\ failures_since_success = [groq |-> 0, deepseek |-> 0]
    /\ \E u \in [Threads -> Updates] :
         threads = [t \in Threads |-> [kind |-> u[t].kind, err |-> u[t].err,
                                       pc |-> "is_healthy", read |-> 0]]
    /\ retry_in = RetryIdle
    /\ retry_out = RetryNone
    /\ retry_done = FALSE

RaceFrame ==
    UNCHANGED <<env, clients, deepseek_status, clock, session, handler, pc, locals,
                response, sent, entry, failures_since_success, retry>>

\* status.is_healthy = True / status.is_healthy = False
SetHealthy(t) ==
    /\ pc = "race" /\ threads[t].pc = "is_healthy"
    /\ groq_status' = [groq_status EXCEPT !.is_healthy = (threads[t].kind = "success")]
    /\ threads' = [threads EXCEPT ![t].pc = "last_check_time"]
    /\ RaceFrame

\* status.last_check_time = time.time()
StampTime(t) ==
    /\ pc = "race" /\ threads[t].pc = "last_check_time"
    /\ groq_status' = [groq_status EXCEPT !.last_check_time = clock]
    /\ threads' = [threads EXCEPT ![t].pc = IF threads[t].kind = "success"
                                            THEN "reset_failures" ELSE "last_error"]
    /\ RaceFrame

\* status.consecutive_failures = 0
ResetFailures(t) ==
    /\ pc = "race" /\ threads[t].pc = "reset_failures"
    /\ groq_status' = [groq_status EXCEPT !.consecutive_failures = 0]
    /\ threads' = [threads EXCEPT ![t].pc = "done"]
    /\ RaceFrame

\* status.last_error = str(e)
SetLastError(t) ==
    /\ pc = "race" /\ threads[t].pc = "last_error"
    /\ groq_status' = [groq_status EXCEPT !.last_error = threads[t].err]
    /\ threads' = [threads EXCEPT ![t].pc = "read_failures"]
    /\ RaceFrame

\* status.consecutive_failures += 1: the attribute is loaded ...
ReadFailures(t) ==
    /\ pc = "race" /\ threads[t].pc = "read_failures"
    /\ threads' = [threads EXCEPT ![t].pc = "write_failures",
                                  ![t].read = groq_status.consecutive_failures]
    /\ UNCHANGED groq_status
    /\ RaceFrame

\* ... and the sum is stored.
WriteFailures(t) ==
    /\ pc = "race" /\ threads[t].pc = "write_failures"
    /\ groq_status' = [groq_status EXCEPT !.consecutive_failures = threads[t].read + 1]
    /\ threads' = [threads EXCEPT ![t].pc = "done"]
    /\ RaceFrame

RaceNext ==
    \E t \in Threads :
        \/ SetHealthy(t)
        \/ StampTime(t)
        \/ ResetFailures(t)
        \/ SetLastError(t)
        \/ ReadFailures(t)
        \/ WriteFailures(t)

RaceSpec == RaceInit /\ [][RaceNext]_vars

\* =================================================================== claims
\* ---- the retry executor (checked under RetrySpec)
RetryCalls == NumCalls(retry_out.log)
Raises(k) == retry_in.func[k].kind = "raise"
Returns(k) == retry_in.func[k].kind = "return"
AllFail == \A k \in 1..retry_in.max_retries : Raises(k)
FirstReturn(k) == Returns(k) /\ \A j \in 1..(k - 1) : Raises(j)
\* The invocations, in the order they were made.
CallArgs == [i \in 1..RetryCalls |->
                LET idx == CHOOSE j \in 1..Len(retry_out.log) :
                              /\ retry_out.log[j].ev = "call"
                              /\ Cardinality({h \in 1..j : retry_out.log[h].ev = "call"}) = i
                IN  retry_out.log[idx].arg]

\* C8: retry_with_backoff invokes the operation at most max_retries times, in
\* order, stops at the first invocation that returns and yields its value; an
\* operation that fails twice then succeeds is invoked exactly 3 times (with
\* max_retries = 3) and one that always fails exactly max_retries times.
C8_RetryInvocations ==
    retry_done =>
        /\ RetryCalls <= retry_in.max_retries
        /\ \A i \in 1..RetryCalls : CallArgs[i] = i
        /\ \A k \in 1..retry_in.max_retries :
             FirstReturn(k) => /\ RetryCalls = k
                               /\ retry_out.result = retry_in.func[k]
        /\ AllFail => RetryCalls = retry_in.max_retries
        /\ (retry_in.max_retries = DefaultMaxRetries /\ Raises(1) /\ Raises(2) /\ Returns(3))
             => (RetryCalls = 3 /\ retry_out.result = retry_in.func[3])

C8_Witness ==
    /\ retry_done
    /\ retry_in.max_retries = DefaultMaxRetries
    /\ Raises(1) /\ Raises(2) /\ Returns(3)
    /\ RetryCalls = 3
    /\ retry_out.result.kind = "return"

\* C9: when every attempt fails, the exception that reaches the caller is the
\* one raised by the final attempt, unmodified; an exception of an earlier
\* attempt never reaches the caller.
C9_LastExceptionPropagates ==
    retry_done =>
        /\ (retry_in.max_retries >= 1 /\ AllFail) =>
             /\ retry_out.result.kind = "raise"
             /\ retry_out.at = retry_in.max_retries
             /\ retry_out.result = retry_in.func[retry_in.max_retries]
        /\ retry_out.result.kind = "raise" =>
             /\ AllFail
             /\ retry_out.at = retry_in.max_retries

C9_Witness ==
    /\ retry_done
    /\ retry_in.max_retries = DefaultMaxRetries
    /\ AllFail
    /\ retry_in.func[1].val # retry_in.func[3].val
    /\ retry_in.func[2].val # retry_in.func[3].val
    /\ retry_out.result = retry_in.func[3]

\* C10: the wait before attempt n >= 2 is initial_delay * 2^(n-2); a wait
\* happens only between a failed attempt and the next attempt, and none
\* follows the final attempt or a successful one.
C10_BackoffDelays ==
    retry_done =>
        LET log == retry_out.log IN
        /\ \A i \in 1..Len(log) :
             log[i].ev = "sleep" =>
                /\ i > 1 /\ i < Len(log)
                /\ log[i - 1].ev = "call" /\ Raises(log[i - 1].arg)
                /\ log[i + 1].ev = "call" /\ log[i + 1].arg = log[i - 1].arg + 1
                /\ log[i].arg = retry_in.initial_delay * 2 ^ (log[i + 1].arg - 2)
        /\ \A i \in 1..Len(log) :
             (log[i].ev = "call" /\ log[i].arg >= 2) => log[i - 1].ev = "sleep"
        /\ Len(log) > 0 => log[Len(log)].ev = "call"

C10_Witness ==
    /\ retry_done
    /\ retry_in.initial_delay = 2
    /\ Len(retry_out.log) = 5
    /\ retry_out.log[2] = Ev("sleep", 2)
    /\ retry_out.log[4] = Ev("sleep", 4)
    /\ retry_out.result.kind = "return"

\* ---- the gateway (checked under Spec)
EnhanceDone == handler = "enhance" /\ pc = "done"
\* An authenticated /enhance with a non-empty prompt, answered.
Served == EnhanceDone /\ request.entered /\ EnhanceEntry(request.body) = NoResponse
Completions(p) ==
    {i \in 1..Len(sent) : sent[i].kind = "completion" /\ sent[i].provider = p}
RequestsTo(p) == {i \in 1..Len(sent) : sent[i].provider = p}
ProbesTo(p) == {i \in 1..Len(sent) : sent[i].kind = "probe" /\ sent[i].provider = p}
\* The text a provider's answer to a completion request carries, if any.
ReplyText(reply) ==
    CASE reply.kind = "content" -> reply.val
      [] reply.kind = "no_choices" -> "str(response)"
      [] OTHER -> None
Failed(i) == sent[i].reply.kind \in {"raise", "empty_choices"}
GroqFailed == \E i \in Completions("groq") : Failed(i)
WithText == {i \in 1..Len(sent) : /\ sent[i].kind = "completion"
                                  /\ ReplyText(sent[i].reply) \notin {None, ""}}
TrackersUnchanged ==
    /\ groq_status = entry.groq_status
    /\ deepseek_status = entry.deepseek_status
ClientsUnchanged ==
    /\ groq_client = entry.groq_client
    /\ deepseek_client = entry.deepseek_client

\* C1 as claimed: every authenticated /enhance with a non-empty prompt ends in
\* a non-error result, the local rule-based rewrite when no provider yields
\* text, and never in a 503.
C1_NeverExhausted ==
    Served => /\ response.code = 200
              /\ (WithText = {} => response.kind = "local")

\* C1 amended: such a request ends in 200 carrying a provider's text exactly
\* when a completion call returned non-empty text; when no provider yields
\* text it ends in 503 ("unavailable" with no completion call made, else
\* "API request failed"), never in a local rewrite.
C1_ProviderTextOr503 ==
    Served =>
        /\ response.code \in {200, 503}
        /\ WithText # {} =>
             /\ response.code = 200 /\ response.kind = "enhanced"
             /\ \E i \in WithText : response.text = ReplyText(sent[i].reply)
        /\ WithText = {} =>
             /\ response.code = 503
             /\ response.kind \in {"unavailable", "api_failed"}
             /\ response.text = None

C1_Witness ==
    /\ Served
    /\ Completions("groq") # {} /\ Completions("deepseek") # {}
    /\ WithText = {}
    /\ response.code = 503 /\ response.kind = "api_failed"

\* C2: an authenticated /enhance whose body is missing or empty, or whose
\* prompt is empty or absent, is answered 400 at once: no provider request of
\* any kind is issued and no tracker field changes.
C2_BadInputRejected ==
    (handler = "enhance" /\ request.entered
        /\ request.body \in {"null", "{}", "{type}", "{prompt:''}"}) =>
        /\ pc = "done"
        /\ response.code = 400
        /\ response.kind \in {"no_data", "no_prompt"}
        /\ sent = <<>>
        /\ TrackersUnchanged
        /\ ClientsUnchanged

C2_Witness ==
    /\ EnhanceDone /\ request.entered
    /\ request.body = "{prompt:''}"
    /\ response = NoPrompt
    /\ entry.groq_status.consecutive_failures > 0

\* C3 as claimed: an /enhance without an authenticated session is answered 401.
C3_Unauthenticated401 ==
    (EnhanceDone /\ entry.session # "profile_ok") => response.code = 401

\* C3 amended: an /enhance without an authenticated session is answered with a
\* 302 redirect to the login route; the handler body does not run (nothing is
\* sent to a provider, no tracker changes) and a profile without user_id is
\* cleared from the session.
C3_UnauthenticatedRedirect ==
    (handler = "enhance" /\ entry.session # "profile_ok") =>
        /\ pc = "done"
        /\ response = RedirectLogin
        /\ ~request.entered
        /\ sent = <<>>
        /\ TrackersUnchanged
        /\ ClientsUnchanged
        /\ session = IF entry.session = "profile_no_uid" THEN "empty" ELSE entry.session

C3_Witness ==
    /\ EnhanceDone
    /\ entry.session = "profile_no_uid"
    /\ request.body = "{prompt:p}"
    /\ response.code = 302

\* C4 as claimed: whenever Groq's health is false or the call to Groq fails,
\* DeepSeek is the next provider tried.
C4_AlwaysFallsBack ==
    (Served /\ (~api_health.groq.healthy \/ GroqFailed)) =>
        Completions("deepseek") # {}

\* C4 amended: whenever Groq's health is false or the call to Groq fails, and
\* DeepSeek's client is initialised and its probe in this request was healthy,
\* DeepSeek is the next provider tried; when DeepSeek is unhealthy or has no
\* client no fallback call is made and the request ends in 503.  DeepSeek is
\* never tried before Groq.
C4_FallsBackWhenHealthy ==
    Served =>
        /\ ((~api_health.groq.healthy \/ GroqFailed)
              /\ deepseek_client # None /\ api_health.deepseek.healthy) =>
             /\ Completions("deepseek") = {Len(sent)}
             /\ Completions("groq") # {} => Completions("groq") = {Len(sent) - 1}
        /\ ((~api_health.groq.healthy \/ GroqFailed)
              /\ ~(deepseek_client # None /\ api_health.deepseek.healthy)) =>
             /\ Completions("deepseek") = {}
             /\ response.code = 503
        /\ \A i \in Completions("groq"), j \in Completions("deepseek") : i < j

C4_Witness ==
    /\ Served
    /\ GroqFailed
    /\ Completions("deepseek") # {}
    /\ response.code = 200

\* C5 as claimed: a completion call that fails is tried again against the same
\* provider before the gateway falls back.
C5_FailedCallRetried ==
    Served =>
        \A p \in {"groq", "deepseek"} :
            (\E i \in Completions(p) : Failed(i)) => Cardinality(Completions(p)) >= 2

\* C5 amended: a completion call that fails is not retried: each provider gets
\* at most one completion request per /enhance request, and a failed Groq call
\* is followed at once by the DeepSeek call (if DeepSeek is healthy) or by the
\* 503 response.
C5_FailedCallNotRetried ==
    handler = "enhance" =>
        /\ \A p \in {"groq", "deepseek"} : Cardinality(Completions(p)) <= 1
        /\ \A i \in Completions("groq") :
             Failed(i) =>
                /\ pc \in {"call_deepseek", "await_deepseek", "done"}
                /\ i < Len(sent) =>
                     (sent[i + 1].kind = "completion" /\ sent[i + 1].provider = "deepseek")
                /\ (pc = "done" /\ i = Len(sent)) => response.code = 503

C5_Witness ==
    /\ Served
    /\ GroqFailed
    /\ Cardinality(Completions("groq")) = 1
    /\ Completions("deepseek") = {}
    /\ response.code = 503

\* C6: if, after the health probes and the one Groq re-initialisation attempt,
\* neither provider is healthy, /enhance returns 503 and sends no completion
\* request to either provider.
C6_NoHealthyProvider503 ==
    handler = "enhance" =>
        /\ pc \in {"call_groq", "await_groq", "call_deepseek", "await_deepseek"}
             => ~BothUnhealthy(api_health)
        /\ (Served /\ BothUnhealthy(api_health)) =>
             /\ response.code = 503
             /\ Completions("groq") = {} /\ Completions("deepseek") = {}
        /\ Cardinality({i \in 1..Len(sent) : sent[i].kind = "init_test"}) <= 1

C6_Witness ==
    /\ Served
    /\ BothUnhealthy(api_health)
    /\ \E i \in 1..Len(sent) : sent[i].kind = "init_test"
    /\ ProbesTo("groq") # {} /\ ProbesTo("deepseek") # {}
    /\ response = Unavailable

\* C7 as claimed: serving /health sends nothing to a provider and leaves every
\* tracker field of both providers unchanged.
C7_HealthReadOnly ==
    (handler = "health" /\ pc = "done") => (sent = <<>> /\ TrackersUnchanged)

ProbedOnce(p, client, status, before) ==
    IF client = None
    THEN RequestsTo(p) = {} /\ status = before
    ELSE /\ Cardinality(RequestsTo(p)) = 1
         /\ status.last_check_time = clock
         /\ status.is_healthy = api_health[p].healthy
         /\ status.consecutive_failures =
               IF api_health[p].healthy THEN 0 ELSE before.consecutive_failures + 1
         /\ status.last_error =
               IF api_health[p].healthy THEN before.last_error ELSE api_health[p].error

\* C7 amended: serving /health runs the health checks: it sends one probe to
\* each provider whose client is initialised and records the outcome in that
\* provider's tracker (is_healthy, consecutive_failures, last_error on a
\* failure, last_check_time); a provider without a client gets no request and
\* its tracker is unchanged.  No completion request is sent and no client is
\* replaced.
C7_HealthProbes ==
    (handler = "health" /\ pc = "done") =>
        /\ \A i \in 1..Len(sent) : sent[i].kind = "probe"
        /\ ProbedOnce("groq", groq_client, groq_status, entry.groq_status)
        /\ ProbedOnce("deepseek", deepseek_client, deepseek_status, entry.deepseek_status)
        /\ ClientsUnchanged

C7_Witness ==
    /\ handler = "health" /\ pc = "done"
    /\ Len(sent) = 2
    /\ entry.groq_status.is_healthy /\ ~groq_status.is_healthy
    /\ groq_status.consecutive_failures = 1

\* ---- the health trackers
Providers == {"groq", "deepseek"}
Status(p) == IF p = "groq" THEN groq_status ELSE deepseek_status
Client(p) == IF p = "groq" THEN groq_client ELSE deepseek_client
Key(p) == IF p = "groq" THEN GROQ_API_KEY ELSE DEEPSEEK_API_KEY

\* C11: every recorded success leaves the provider's status with is_healthy
\* true, consecutive_failures 0 and last_error cleared.  (is_healthy is true
\* only from a recorded success to the next recorded failure.)
C11_SuccessClearsError ==
    \A p \in Providers :
        Status(p).is_healthy =>
            /\ Status(p).consecutive_failures = 0
            /\ Status(p).last_error = None

Other(p) == IF p = "groq" THEN "deepseek" ELSE "groq"
\* This step sent a probe to p and got its outcome.
ProbeDone(p) ==
    /\ Len(sent') > Len(sent)
    /\ sent'[Len(sent')].kind = "probe"
    /\ sent'[Len(sent')].provider = p
\* This step received the answer to the completion request sent to p.
CompletionDone(p) ==
    /\ Len(sent) > 0
    /\ Len(sent') = Len(sent)
    /\ sent[Len(sent)].kind = "completion"
    /\ sent[Len(sent)].provider = p
    /\ sent[Len(sent)].reply = Pending
    /\ sent'[Len(sent)].reply # Pending
RecordedFailure(p) ==
    \/ ProbeDone(p) /\ ~api_health'[p].healthy
    \/ CompletionDone(p) /\ sent'[Len(sent)].reply.kind \in {"raise", "empty_choices"}
RecordedSuccess(p) ==
    \/ ProbeDone(p) /\ api_health'[p].healthy
    \/ CompletionDone(p) /\ sent'[Len(sent)].reply.kind \in {"content", "no_choices"}
\* The error of the failure this step recorded for p.
RecordedError(p) ==
    IF CompletionDone(p)
    THEN IF sent'[Len(sent)].reply.kind = "raise"
         THEN sent'[Len(sent)].reply.val ELSE IndexError
    ELSE IF pc = "reinit_probe" THEN Status(p)'.last_error
    ELSE api_health'[p].error

\* C12: every recorded failure (probe or completion) sets is_healthy false,
\* raises consecutive_failures by exactly 1 over its value before the attempt,
\* stores the error in last_error and stamps last_check_time; the other
\* provider's status is unchanged by it.
C12_FailureRecorded ==
    [][\A p \in Providers :
         RecordedFailure(p) =>
            /\ Status(p)' = [is_healthy |-> FALSE,
                             last_check_time |-> clock,
                             last_error |-> RecordedError(p),
                             consecutive_failures |->
                                 Status(p).consecutive_failures + 1]
            /\ Status(p)'.last_error \in Errors \cup {IndexError}
            /\ Status(Other(p))' = Status(Other(p))]_vars

C12_Witness ==
    /\ handler = "health" /\ pc = "done"
    /\ entry.deepseek_status.consecutive_failures = 1
    /\ deepseek_status = [is_healthy |-> FALSE, last_check_time |-> clock,
                          last_error |-> "timeout", consecutive_failures |-> 2]
    /\ groq_status.is_healthy

\* C13: consecutive_failures equals the number of failed attempts (probes and
\* completion calls) to that provider since its most recent successful one, or
\* since the start if it never succeeded; a success resets it to 0.
C13_CountsFailuresSinceSuccess ==
    \A p \in Providers :
        /\ Status(p).consecutive_failures = failures_since_success[p]
        /\ Status(p).is_healthy => Status(p).consecutive_failures = 0

C13_Witness ==
    /\ pc = "done"
    /\ entry.groq_status.consecutive_failures = 2
    /\ failures_since_success.groq = 0
    /\ groq_status.is_healthy
    /\ groq_status.consecutive_failures = 0
    /\ failures_since_success.deepseek = 3
    /\ deepseek_status.consecutive_failures = 3

\* C14: a provider whose API key is absent is permanently unhealthy and this is
\* no startup failure: the process starts and serves, and in every reachable
\* state that provider's client is absent, its status and every health check
\* report it unhealthy, and no probe, test or completion request is sent to it.
C14_NoKeyNoClient ==
    \A p \in Providers :
        ~Key(p) =>
            /\ Client(p) = None
            /\ p = "groq" => new_groq_client = None
            /\ Status(p) = APIStatus
            /\ ~api_health[p].healthy
            /\ RequestsTo(p) = {}
            /\ (handler = "health" /\ pc = "done") => response.kind = "degraded"
            /\ (handler = "system_health" /\ pc = "done") =>
                   response.kind \in {"error", "critical", "degraded"}

C14_Witness ==
    /\ ~GROQ_API_KEY /\ DEEPSEEK_API_KEY
    /\ Served
    /\ clock = 3
    /\ api_health.groq.error = "Groq client not initialized"
    /\ Completions("deepseek") # {}
    /\ response.code = 200

\* The completion calls of this request answered without a choices field.
Malformed == {i \in 1..Len(sent) : /\ sent[i].kind = "completion"
                                   /\ sent[i].reply = NoChoices}

\* C15 as claimed: a completion answer that carries no choices is treated as a
\* failure of that provider: its text is never returned to the caller and the
\* provider is recorded as failed.
C15_MalformedIsFailure ==
    Served =>
        \A i \in Malformed :
            /\ response.text # ReplyText(sent[i].reply)
            /\ ~Status(sent[i].provider).is_healthy

\* C15 amended: a completion answer that carries no choices is not treated as
\* a failure: the provider is recorded as successful (is_healthy true,
\* consecutive_failures 0), the stringified response is returned to the caller
\* as the enhanced prompt with 200, and no further provider is tried.  Only an
\* answer whose choices list is empty is recorded as a failure.
C15_MalformedIsReturned ==
    Served =>
        /\ \A i \in Malformed :
            /\ i = Len(sent)
            /\ response = Resp(200, "enhanced", "str(response)", <<>>)
            /\ Status(sent[i].provider).is_healthy
            /\ Status(sent[i].provider).consecutive_failures = 0
        /\ \A i \in 1..Len(sent) :
            (sent[i].kind = "completion" /\ sent[i].reply = EmptyChoices) =>
                /\ ~Status(sent[i].provider).is_healthy
                /\ Status(sent[i].provider).last_error = IndexError

C15_Witness ==
    /\ Served
    /\ GroqFailed
    /\ Malformed = {Len(sent)}
    /\ sent[Len(sent)].provider = "deepseek"
    /\ response.text = "str(response)"

\* What removing every <think>...</think> span, and an unterminated <think> to
\* the end of the string, would make of a text.
WithoutThink(text) ==
    CASE text = "<think>reasoning</think>answer" -> "answer"
      [] text = "<think>answer never closes" -> ""
      [] OTHER -> text
\* The completion answer whose text this request returned.
Returned == {i \in WithText : i = Len(sent)}

\* C16 as claimed: the enhanced text returned to the caller is the provider's
\* text with every <think> span removed, an unterminated <think> removing
\* everything from the tag to the end.
C16_ThinkStripped ==
    (Served /\ response.code = 200) =>
        \A i \in Returned : response.text = WithoutThink(ReplyText(sent[i].reply))

\* C16 amended: the enhanced text returned to the caller is the provider's
\* text exactly as the provider sent it: <think> spans, closed or
\* unterminated, are returned with the rest of the text.
C16_TextReturnedVerbatim ==
    (Served /\ response.code = 200) =>
        /\ Returned # {}
        /\ \A i \in Returned :
             /\ response.text = ReplyText(sent[i].reply)
             /\ response.text = enhanced_prompt
             /\ response.kind = "enhanced"

C16_Witness ==
    /\ Served
    /\ response.code = 200
    /\ sent[Len(sent)].reply = Content("<think>answer never closes")
    /\ response.text = "<think>answer never closes"

\* Every text a provider returns in this model is not valid JSON.
NotJson == Texts \cup {"str(response)"}
\* An /enhance request of category image whose last completion call returned
\* text that is not JSON.
ImageNotJson ==
    /\ Served
    /\ request.type = "image"
    /\ Returned # {}
    /\ ReplyText(sent[Len(sent)].reply) \in NotJson

\* C17 as claimed: for category image, a provider response that is not valid
\* JSON is returned as a wrapped fallback JSON object containing a "note",
\* never as an error and never as the bare raw text.
C17_ImageWrapped ==
    ImageNotJson =>
        /\ response.code = 200
        /\ response.kind = "wrapped_with_note"

\* C17 amended: the category image is handled exactly as user: the user
\* system message is sent, and a provider response that is not valid JSON is
\* returned with 200 as the bare raw text in enhanced_prompt, never wrapped and
\* never as an error.
C17_ImageReturnedBare ==
    ImageNotJson =>
        /\ response = Resp(200, "enhanced", ReplyText(sent[Len(sent)].reply), <<>>)
        /\ \A i \in 1..Len(sent) :
             sent[i].kind = "completion" => sent[i].msg = SystemMessage("user")

C17_Witness ==
    /\ ImageNotJson
    /\ sent[Len(sent)].provider = "deepseek"
    /\ response.text = "answer"

\* The completion requests sent and not yet answered.
InFlight == {i \in 1..Len(sent) : /\ sent[i].kind = "completion"
                                  /\ sent[i].reply = Pending}

\* C18: within one /enhance request the completion calls are strictly
\* sequential, Groq then DeepSeek: at most one is in flight at any time,
\* DeepSeek's call starts only after Groq's has been answered or skipped, and
\* each provider receives at most one completion call per request.
C18_SequentialCalls ==
    /\ Cardinality(InFlight) <= 1
    /\ InFlight \subseteq {Len(sent)}
    /\ \A p \in Providers : Cardinality(Completions(p)) <= 1
    /\ \A i \in Completions("groq"), j \in Completions("deepseek") :
         i < j /\ sent[i].reply # Pending
    /\ (Completions("deepseek") # {} /\ Completions("groq") = {}) =>
         ~TryPrimary(groq_client, api_health)
    /\ (Completions("groq") # {} \/ Completions("deepseek") # {}) =>
         handler = "enhance"

C18_Witness ==
    /\ handler = "enhance"
    /\ pc = "await_deepseek"
    /\ Completions("groq") = {Len(sent) - 1}
    /\ sent[Len(sent) - 1].reply = Content(None)
    /\ InFlight = {Len(sent)}

\* The completion requests of this request that have been answered.
Answered == {i \in 1..Len(sent) : /\ sent[i].kind = "completion"
                                  /\ sent[i].reply # Pending}
\* The error a failed completion call raised.
RaisedBy(i) == IF sent[i].reply.kind = "raise" THEN sent[i].reply.val ELSE IndexError

\* C19: every completion attempt has updated its provider's status, to success
\* or to failure, by the time the gateway goes on to the next provider or
\* builds the response: from the moment the answer is in, and so at the
\* DeepSeek block and at the response, the status carries that outcome.
C19_StatusUpdatedBeforeNext ==
    /\ \A i \in Answered :
         LET s == Status(sent[i].provider) IN
         /\ s.last_check_time = clock
         /\ s.is_healthy = ~Failed(i)
         /\ s.consecutive_failures = IF Failed(i) THEN 1 ELSE 0
         /\ Failed(i) => s.last_error = RaisedBy(i)
    /\ pc \in {"call_deepseek", "await_deepseek"} => Completions("groq") \subseteq Answered
    /\ EnhanceDone => InFlight = {}

C19_Witness ==
    /\ handler = "enhance"
    /\ pc = "call_deepseek"
    /\ Answered = {Len(sent)}
    /\ sent[Len(sent)].reply = EmptyChoices
    /\ entry.groq_status.is_healthy
    /\ groq_status = [is_healthy |-> FALSE, last_check_time |-> clock,
                      last_error |-> IndexError, consecutive_failures |-> 1]

\* C20: a provider's status changes only as the outcome of a probe or a
\* completion call to that provider; every other step (a request arriving, a
\* rejected request, a session route, a response, a request to the other
\* provider, a client set-up) leaves all four fields as they were, so an
\* unhealthy provider stays unhealthy until its next probe or call.
C20_StatusChangesOnlyOnCalls ==
    [][\A p \in Providers :
         (Status(p).is_healthy # Status(p)'.is_healthy
            \/ Status(p).last_check_time # Status(p)'.last_check_time
            \/ Status(p).last_error # Status(p)'.last_error
            \/ Status(p).consecutive_failures # Status(p)'.consecutive_failures)
         => (ProbeDone(p) \/ CompletionDone(p))]_vars

C20_Witness ==
    /\ EnhanceDone /\ request.entered
    /\ response = NoData
    /\ sent = <<>>
    /\ clock = 3
    /\ deepseek_status = [is_healthy |-> FALSE, last_check_time |-> 2,
                          last_error |-> "timeout", consecutive_failures |-> 2]
    /\ deepseek_status = entry.deepseek_status
    /\ groq_status = entry.groq_status

\* ---- concurrent status updates (checked under RaceSpec)
\* One thread's whole update, applied at once.
ApplyUpdate(s, t) ==
    IF threads[t].kind = "success" THEN MarkSuccess(s, clock)
    ELSE MarkFailure(s, clock, threads[t].err)
\* The status after the updates of the threads in seq, applied in that order.
RECURSIVE ApplyInOrder(_, _)
ApplyInOrder(s, seq) ==
    IF seq = <<>> THEN s
    ELSE ApplyInOrder(ApplyUpdate(s, Head(seq)), Tail(seq))
Orderings == {seq \in [Threads -> Threads] : \A a, b \in Threads : a # b => seq[a] # seq[b]}
AllUpdated == pc = "race" /\ \A t \in Threads : threads[t].pc = "done"

\* C21: when several requests update one provider's status concurrently, any
\* interleaving of the updates' steps leaves the status equal to what some
\* sequential ordering of the same updates would leave: no increment of
\* consecutive_failures is lost and the status is never healthy with
\* consecutive_failures > 0.
C21_UpdatesSerializable ==
    AllUpdated =>
        /\ \E seq \in Orderings : groq_status = ApplyInOrder(entry.groq_status, seq)
        /\ groq_status.is_healthy => groq_status.consecutive_failures = 0

\* ---- the gateway, continued (checked under Spec)
\* The completion requests of this request, to either provider.
AllCompletions == {i \in 1..Len(sent) : sent[i].kind = "completion"}

\* C22 as claimed: the system instruction sent with a completion request is
\* selected from the request's category alone, with a distinct instruction for
\* each of user, system and image.
C22_DistinctInstructionPerCategory ==
    \A i \in AllCompletions :
        /\ request.type = "user" => sent[i].msg = "improve user prompt"
        /\ request.type = "system" => sent[i].msg = "improve system prompt"
        /\ request.type = "image" =>
              sent[i].msg \notin {"improve user prompt", "improve system prompt"}

\* C22 amended: the system instruction is selected from the request's category
\* alone, and there are two of them: one for system, and one for every other
\* category, so user and image get the same instruction.  It is the same for
\* both providers and whatever the health state.
C22_TwoInstructions ==
    \A i \in AllCompletions :
        sent[i].msg = IF request.type = "system" THEN "improve system prompt"
                      ELSE "improve user prompt"

C22_Witness ==
    /\ Served
    /\ request.type = "image"
    /\ Cardinality(AllCompletions) = 2
    /\ \A i \in AllCompletions : sent[i].msg = "improve user prompt"
    /\ entry.groq_status.consecutive_failures > 0

\* C23: in every /enhance request a completion call is sent to a provider only
\* if that provider's client is initialised and its health probe earlier in
\* the same request (for Groq, possibly the probe after re-initialisation)
\* reported healthy; the probes of all initialised providers are over before
\* the first completion call.
C23_CallOnlyAfterHealthyProbe ==
    /\ \A i \in AllCompletions :
         LET p == sent[i].provider IN
         /\ Client(p) # None
         /\ api_health[p].healthy
         /\ \E j \in ProbesTo(p) : j < i
         /\ sent[i].reply = Pending =>
               (Status(p).is_healthy /\ Status(p).last_check_time = clock)
    /\ \A i \in AllCompletions, j \in 1..Len(sent) : sent[j].kind = "probe" => j < i
    /\ AllCompletions # {} =>
         \A p \in Providers : Client(p) # None => ProbesTo(p) # {}

C23_Witness ==
    /\ handler = "enhance"
    /\ pc = "await_groq"
    /\ entry.groq_client = None
    /\ groq_client = "reinit"
    /\ deepseek_client # None /\ ~api_health.deepseek.healthy
    /\ InFlight = {Len(sent)}

\* Groq's completion call was answered and try_api_call returned (no raise).
GroqReturned == \E i \in Completions("groq") : i \in Answered /\ ~Failed(i)
\* ... and what it returned was None (message.content is null).
GroqReturnedNone == \E i \in Completions("groq") : sent[i].reply = Content(None)

\* C24 as claimed: DeepSeek's completion call is made only if Groq's call was
\* skipped or raised; whenever Groq's call returns without raising, whatever
\* the content, empty or null included, DeepSeek is not called.
C24_NoFallbackAfterReturn ==
    GroqReturned => Completions("deepseek") = {}

\* C24 amended: DeepSeek's completion call is made only if Groq's call was
\* skipped, raised, or returned null content; whenever Groq's call returns a
\* value that is not None (text, the empty string, or the stringified
\* response), DeepSeek is not called in that request.
C24_FallbackOnlyWithoutValue ==
    /\ Completions("deepseek") # {} =>
         (Completions("groq") = {} \/ GroqFailed \/ GroqReturnedNone)
    /\ (GroqReturned /\ ~GroqReturnedNone) => Completions("deepseek") = {}

C24_Witness ==
    /\ Served
    /\ GroqReturnedNone
    /\ Completions("deepseek") = {Len(sent)}
    /\ sent[Len(sent)].reply = Content("answer")
    /\ response.code = 200

\* The completion calls of this request that returned without raising.
ReturnedCalls == {i \in Answered : ~Failed(i)}

\* C25 as claimed: if any completion call of the request returns without
\* raising, the response is 200 with exactly the text that call returned; 503
\* 'API request failed' is returned only when every attempted call raised.
C25_AnyReturnIs200 ==
    Served =>
        /\ ReturnedCalls # {} =>
             /\ response.code = 200
             /\ \E i \in ReturnedCalls : response.text = ReplyText(sent[i].reply)
        /\ response.kind = "api_failed" => ReturnedCalls = {}

\* C25 amended: if a completion call of the request returns non-empty text,
\* the response is 200 with exactly that text; 503 'API request failed' is
\* returned when every attempted call raised or returned empty or null
\* content, its message listing only the errors of the calls that raised.
C25_NonEmptyReturnIs200 ==
    Served =>
        /\ \A i \in ReturnedCalls :
             ReplyText(sent[i].reply) \notin {None, ""} =>
                response = Resp(200, "enhanced", ReplyText(sent[i].reply), <<>>)
        /\ (AllCompletions # {} /\ \A i \in AllCompletions :
                 Failed(i) \/ ReplyText(sent[i].reply) \in {None, ""}) =>
             /\ response.code = 503 /\ response.kind = "api_failed"
             /\ Len(response.errors) = Cardinality({i \in AllCompletions : Failed(i)})
        /\ response.kind = "api_failed" =>
             \A i \in AllCompletions :
                 Failed(i) \/ ReplyText(sent[i].reply) \in {None, ""}

C25_Witness ==
    /\ Served
    /\ Completions("groq") = {Len(sent)}
    /\ sent[Len(sent)].reply = Content("")
    /\ deepseek_client # None /\ api_health.deepseek.healthy
    /\ response = Resp(503, "api_failed", None, <<>>)

\* C26: with probes and completion calls executed one at a time, every state
\* of each provider's status between them satisfies: is_healthy implies
\* consecutive_failures = 0, and consecutive_failures > 0 implies last_error
\* is set (and the status is unhealthy and has been stamped).
C26_StatusConsistent ==
    \A p \in Providers :
        /\ Status(p).is_healthy => Status(p).consecutive_failures = 0
        /\ Status(p).consecutive_failures > 0 =>
             /\ Status(p).last_error # None
             /\ ~Status(p).is_healthy
             /\ Status(p).last_check_time # NoTime

C26_Witness ==
    /\ pc = "idle"
    /\ groq_status.is_healthy
    /\ groq_status.last_error = IndexError
    /\ groq_status.consecutive_failures = 0
    /\ deepseek_status.consecutive_failures = 2
    /\ deepseek_status.last_error = "timeout"

\* A request that only runs the health checks has answered.
HealthChecked == handler \in {"health", "system_health"} /\ pc = "done"

\* C27: check_api_health retries a failing probe: a provider is reported
\* unhealthy only after its probe was attempted max_retries (3) times, so a
\* probe that fails once and then succeeds yields a healthy result.
C27_FailingProbeRetried ==
    HealthChecked =>
        \A p \in Providers :
            (Client(p) # None /\ ~api_health[p].healthy) =>
                Cardinality(ProbesTo(p)) = DefaultMaxRetries

\* C28: /health reports "healthy" with 200 exactly when every provider whose
\* client is initialised passed its probe; a provider whose client was never
\* initialised is left out of the overall status.
C28_UninitialisedExcluded ==
    (handler = "health" /\ pc = "done") =>
        /\ response.kind = "healthy" <=>
             \A p \in Providers : Client(p) # None => api_health[p].healthy
        /\ response.code = IF response.kind = "healthy" THEN 200 ELSE 503

\* C29: after startup the process-wide Groq client is replaced only inside an
\* /enhance request in which both providers probed unhealthy, and only by the
\* client initialised in that request once it has passed a health probe; when
\* the re-initialisation fails, its probe fails, or a provider was healthy,
\* the Groq client is unchanged.  The DeepSeek client is never replaced after
\* startup.
C29_ClientReplacedOnlyAfterProbe ==
    [][pc # "init_clients" =>
         /\ deepseek_client' = deepseek_client
         /\ groq_client' # groq_client =>
              /\ handler = "enhance"
              /\ pc = "reinit_probe"
              /\ BothUnhealthy(api_health)
              /\ new_groq_client # None
              /\ groq_client' = new_groq_client
              /\ ProbeDone("groq")
              /\ groq_status'.is_healthy
              /\ api_health'.groq.healthy]_vars

C29_Witness ==
    /\ handler = "enhance"
    /\ pc = "call_groq"
    /\ entry.groq_client = "startup"
    /\ groq_client = "reinit"
    /\ new_groq_client = "reinit"
    /\ groq_status.is_healthy
    /\ ~api_health.deepseek.healthy
    /\ deepseek_client = entry.deepseek_client

\* A protected route (/ or /enhance) is being, or has just been, handled.
Protected == handler \in {"index", "enhance"}
\* The wrapped handler ran.
HandlerRan == \/ handler = "index" /\ response.kind = "index_page"
              \/ handler = "enhance" /\ request.entered
NoProfile == session \in {"empty", "jwt_only"}
GuardHolds ==
    /\ Protected =>
         /\ HandlerRan => (entry.session = "profile_ok" /\ session = "profile_ok")
         /\ entry.session = "profile_no_uid" =>
              (session = "empty" /\ response = RedirectLogin /\ ~HandlerRan)
         /\ entry.session \in {"empty", "jwt_only"} =>
              (response = RedirectLogin /\ ~HandlerRan)
    /\ (handler \in {"login", "logout"} /\ pc = "done") => session = "empty"

\* C30: over any sequence of /login, /callback, /logout and protected requests
\* on one session, a handler wrapped by requires_auth runs only when the
\* session holds a profile with a non-empty user_id; a session whose profile
\* lacks user_id is cleared and redirected to login; and right after /login or
\* /logout the session holds no profile, so the next protected request is
\* redirected, not served.
C30_SessionGuard ==
    [][/\ GuardHolds'
       /\ (handler \in {"login", "logout"} /\ pc = "done") =>
             (pc' = "idle" /\ session' = "empty")
       /\ (pc = "idle" /\ NoProfile /\ handler' \in {"index", "enhance"}) =>
             (response' = RedirectLogin /\ pc' = "done"
                /\ sent' = <<>> /\ session' = session)]_vars

C30_Witness ==
    /\ handler = "index" /\ pc = "done"
    /\ entry.session = "profile_no_uid"
    /\ session = "empty"
    /\ response = RedirectLogin
    /\ clock = 3

====
